---- MODULE Spec2Model ----
(***************************************************************************)
(* Conway's Game of Life on a toroidal grid: the Universe of src/lib.rs.   *)
(* The state is one Universe (width, height, cells) together with the      *)
(* position of the one caller that drives it: which operation it called    *)
(* last, whether that call panicked, and, while tick() runs, the loop      *)
(* counters and the `next` buffer of tick().  pre is a history variable:    *)
(* the generation the last tick() was called on, kept until the next call  *)
(* of any operation.                                                       *)
(***************************************************************************)
EXTENDS Integers, Sequences, FiniteSets

VARIABLES width, height, cells, pc, row, col, next, pre, last, status, gen, seed

vars == <<width, height, cells, pc, row, col, next, pre, last, status, gen, seed>>

(* ---------------------------- bounds ----------------------------------- *)

\* largest width / height / coordinate argument the main specification draws
MaxDim == 3
\* largest number of cells of a universe of the main specification
MaxCells == 9
\* largest width / height of the universes seeded with a glider
GliderMaxDim == 6
\* longest coordinate list whose whole set_cells call is computed
MaxCoords == 2
\* bits of the machine word that stands for u32 (2^32 is beyond TLC's
\* integers): wide enough for every index of the universes above, narrow
\* enough for every width and height of the word to be drawn
WordBits == 6

(* ---------------------------- Cell ------------------------------------- *)

Dead == 0
Alive == 1
Cell == {Dead, Alive}

\* mutant of toggle: the Alive arm is missing
toggle_sticky(c) == Alive

toggle(c) == IF c = Dead THEN Alive ELSE Dead

(* ---------------------------- helpers ---------------------------------- *)

\* u32 arithmetic of width, height, row, column: wrapping, as the release
\* build computes it, on a word of WordBits bits
WordModulus == 2 ^ WordBits

U32(x) == x % WordModulus

\* cells is a Vec<Cell> indexed from 0
At(cs, idx) == cs[idx + 1]
Put(cs, idx, c) == [cs EXCEPT ![idx + 1] = c]
\* (0..n).map(|_i| Cell::Dead).collect()
DeadCells(n) == [i \in 1..n |-> Dead]
\* every outcome of (0..n).map(|_i| if random() < 0.5 {Alive} else {Dead})
RandomCells(n) == [1..n -> Cell]

(* ---------------------------- Universe --------------------------------- *)

\* mutant of get_index: the row is not scaled by the width
get_index_no_stride(w, r, c) == U32(r + c)

get_index(w, r, c) == U32(r * w + c)

\* mutant of DeltaRows: the row above is reached with height - 2
DeltaRows_short(h) == <<U32(h - 2), 0, 1>>

\* the two delta arrays of live_neighbor_count
DeltaRows(h) == <<U32(h - 1), 0, 1>>
\* mutant of DeltaCols: the column to the left is reached with width - 2
DeltaCols_short(w) == <<U32(w - 2), 0, 1>>

DeltaCols(w) == <<U32(w - 1), 0, 1>>

\* mutant of neighbor_row: the sum is formed in a type one bit narrower
neighbor_row_narrow(h, r, delta_row) == ((r + delta_row) % (WordModulus \div 2)) % h

\* let neighbor_row = (row + delta_row) % self.height;
neighbor_row(h, r, delta_row) == U32(r + delta_row) % h
\* let neighbor_col = (column + delta_col) % self.width;
neighbor_col(w, c, delta_col) == U32(c + delta_col) % w

\* mutant of neighbor_term: a neighbor across an edge of the grid is not read
neighbor_term_no_wrap(w, h, cs, r, c, delta_row, delta_col) ==
  IF delta_row = 0 /\ delta_col = 0
  THEN 0
  ELSE IF \/ (delta_row = U32(h - 1) /\ r = 0) \/ (delta_row = 1 /\ r = h - 1)
          \/ (delta_col = U32(w - 1) /\ c = 0) \/ (delta_col = 1 /\ c = w - 1)
       THEN 0
       ELSE At(cs, get_index(w, neighbor_row(h, r, delta_row), neighbor_col(w, c, delta_col)))

\* mutant of neighbor_term: the (0, 0) combination is not skipped
neighbor_term_no_skip(w, h, cs, r, c, delta_row, delta_col) ==
  At(cs, get_index(w, neighbor_row(h, r, delta_row), neighbor_col(w, c, delta_col)))

\* one iteration of the inner loop: what it adds to count
neighbor_term(w, h, cs, r, c, delta_row, delta_col) ==
  IF delta_row = 0 /\ delta_col = 0
  THEN 0
  ELSE At(cs, get_index(w, neighbor_row(h, r, delta_row), neighbor_col(w, c, delta_col)))

live_neighbor_count(w, h, cs, r, c) ==
  LET dr == DeltaRows(h)
      dc == DeltaCols(w)
      t(i, j) == neighbor_term(w, h, cs, r, c, dr[i], dc[j])
  IN  t(1, 1) + t(1, 2) + t(1, 3)
    + t(2, 1) + t(2, 2) + t(2, 3)
    + t(3, 1) + t(3, 2) + t(3, 3)

\* mutant of next_cell: the reproduction arm tests < 3 for = 3
next_cell_early_birth(cell, live_neighbors) ==
  CASE cell = Alive /\ live_neighbors < 2 -> Dead
    [] cell = Alive /\ live_neighbors \in {2, 3} -> Alive
    [] cell = Alive /\ live_neighbors > 3 -> Dead
    [] cell = Dead /\ live_neighbors < 3 -> Alive
    [] OTHER -> cell

\* mutant of next_cell: the overpopulation arm is missing
next_cell_no_overpopulation(cell, live_neighbors) ==
  CASE cell = Alive /\ live_neighbors < 2 -> Dead
    [] cell = Dead /\ live_neighbors = 3 -> Alive
    [] OTHER -> cell

\* the match of tick()
next_cell(cell, live_neighbors) ==
  CASE cell = Alive /\ live_neighbors < 2 -> Dead
    [] cell = Alive /\ live_neighbors \in {2, 3} -> Alive
    [] cell = Alive /\ live_neighbors > 3 -> Dead
    [] cell = Dead /\ live_neighbors = 3 -> Alive
    [] OTHER -> cell

(* ---------------------------- construction ----------------------------- *)

Dims == 0..MaxDim
Coord == 0..MaxDim

Idle == pc = "idle" /\ status = "ok"

new(w, h) ==
  /\ width = w
  /\ height = h
  /\ cells \in RandomCells(U32(w * h))
  /\ pc = "idle"
  /\ row = 0
  /\ col = 0
  /\ next = DeadCells(0)
  /\ pre = DeadCells(0)
  /\ last = "new"
  /\ status = "ok"
  /\ gen = 0
  /\ seed = <<0, 0>>

Init == \E w \in Dims, h \in Dims : w * h <= MaxCells /\ new(w, h)

(* ---------------------------- tick ------------------------------------- *)

\* mutant of tick_begin: a zero dimension is rejected
tick_begin_checked ==
  /\ Idle
  /\ pc' = "tick"
  /\ next' = cells
  /\ pre' = cells
  /\ row' = 0
  /\ col' = 0
  /\ last' = "tick"
  /\ status' = IF width = 0 \/ height = 0 THEN "panicked" ELSE status
  /\ UNCHANGED <<width, height, cells>>

\* let mut next = self.cells.clone();  and the entry of the row loop
tick_begin ==
  /\ Idle
  /\ pc' = "tick"
  /\ next' = cells
  /\ pre' = cells
  /\ row' = 0
  /\ col' = 0
  /\ last' = "tick"
  /\ UNCHANGED <<width, height, cells, status>>

\* mutant of tick_cell: the next state is also written into the live buffer
tick_cell_in_place ==
  /\ pc = "tick" /\ status = "ok"
  /\ row < height /\ col < width
  /\ LET idx == get_index(width, row, col)
         cell == At(cells, idx)
         live_neighbors == live_neighbor_count(width, height, cells, row, col)
     IN  /\ next' = Put(next, idx, next_cell(cell, live_neighbors))
         /\ cells' = Put(cells, idx, next_cell(cell, live_neighbors))
  /\ col' = col + 1
  /\ UNCHANGED <<width, height, pc, row, pre, last, status>>

\* the body of the column loop for (row, col)
tick_cell ==
  /\ pc = "tick" /\ status = "ok"
  /\ row < height /\ col < width
  /\ LET idx == get_index(width, row, col)
         cell == At(cells, idx)
         live_neighbors == live_neighbor_count(width, height, cells, row, col)
     IN  next' = Put(next, idx, next_cell(cell, live_neighbors))
  /\ col' = col + 1
  /\ UNCHANGED <<width, height, cells, pc, row, pre, last, status>>

\* the column loop is exhausted: the next row
tick_row ==
  /\ pc = "tick" /\ status = "ok"
  /\ row < height /\ col >= width
  /\ row' = row + 1
  /\ col' = 0
  /\ UNCHANGED <<width, height, cells, pc, next, pre, last, status>>

\* the row loop is exhausted: self.cells = next;
tick_end ==
  /\ pc = "tick" /\ status = "ok"
  /\ row >= height
  /\ cells' = next
  /\ pc' = "idle"
  /\ next' = DeadCells(0)
  /\ row' = 0
  /\ col' = 0
  /\ UNCHANGED <<width, height, pre, last, status>>

RECURSIVE tick_loop(_, _, _, _, _, _)
\* the two loops of tick() from (r, c) on, nx being `next` so far
tick_loop(w, h, cs, nx, r, c) ==
  IF r >= h
  THEN nx
  ELSE IF c >= w
       THEN tick_loop(w, h, cs, nx, r + 1, 0)
       ELSE LET idx == get_index(w, r, c)
                live_neighbors == live_neighbor_count(w, h, cs, r, c)
            IN  tick_loop(w, h, cs,
                          Put(nx, idx, next_cell(At(cs, idx), live_neighbors)),
                          r, c + 1)

\* the buffer a whole call of tick() installs
tick_result(w, h, cs) == tick_loop(w, h, cs, cs, 0, 0)

(* ---------------------------- resize ----------------------------------- *)

\* mutant of set_width: the buffer is sized with the width before the call
set_width_stale(w) ==
  /\ Idle
  /\ width' = w
  /\ cells' = DeadCells(U32(width * height))
  /\ last' = "set_width"
  /\ pre' = DeadCells(0)
  /\ UNCHANGED <<height, pc, row, col, next, status>>

set_width(w) ==
  /\ Idle
  /\ width' = w
  /\ cells' = DeadCells(U32(w * height))
  /\ last' = "set_width"
  /\ pre' = DeadCells(0)
  /\ UNCHANGED <<height, pc, row, col, next, status>>

\* mutant of set_height: a call with the current height returns at once
set_height_if_changed(h) ==
  /\ Idle
  /\ height' = h
  /\ cells' = IF h = height THEN cells ELSE DeadCells(U32(width * h))
  /\ last' = "set_height"
  /\ pre' = DeadCells(0)
  /\ UNCHANGED <<width, pc, row, col, next, status>>

\* mutant of set_height: the new value is stored in the wrong field
set_height_wrong_field(h) ==
  /\ Idle
  /\ width' = h
  /\ cells' = DeadCells(U32(h * height))
  /\ last' = "set_height"
  /\ pre' = DeadCells(0)
  /\ UNCHANGED <<height, pc, row, col, next, status>>

set_height(h) ==
  /\ Idle
  /\ height' = h
  /\ cells' = DeadCells(U32(width * h))
  /\ last' = "set_height"
  /\ pre' = DeadCells(0)
  /\ UNCHANGED <<width, pc, row, col, next, status>>

(* ---------------------------- mutation helpers ------------------------- *)

\* self.cells[idx] panics when idx is not below the buffer's length
InBuffer(cs, idx) == idx < Len(cs)

toggle_cell_result(w, cs, r, c) ==
  LET idx == get_index(w, r, c)
  IN  IF InBuffer(cs, idx)
      THEN [cells |-> Put(cs, idx, toggle(At(cs, idx))), status |-> "ok"]
      ELSE [cells |-> cs, status |-> "panicked"]

toggle_cell(r, c) ==
  /\ Idle
  /\ LET res == toggle_cell_result(width, cells, r, c)
     IN  cells' = res.cells /\ status' = res.status
  /\ last' = "toggle_cell"
  /\ pre' = DeadCells(0)
  /\ UNCHANGED <<width, height, pc, row, col, next>>

\* mutant of set_cells_step: the named cell is flipped, not set
set_cells_step_flip(w, cs, r, c) ==
  LET idx == get_index(w, r, c)
  IN  IF InBuffer(cs, idx)
      THEN [cells |-> Put(cs, idx, toggle(At(cs, idx))), status |-> "ok"]
      ELSE [cells |-> cs, status |-> "panicked"]

\* one iteration of the for loop of set_cells, on the coordinate (r, c)
set_cells_step(w, cs, r, c) ==
  LET idx == get_index(w, r, c)
  IN  IF InBuffer(cs, idx)
      THEN [cells |-> Put(cs, idx, Alive), status |-> "ok"]
      ELSE [cells |-> cs, status |-> "panicked"]

RECURSIVE set_cells_loop(_, _, _, _)
\* the for loop of set_cells from the k-th coordinate of the slice on
set_cells_loop(w, cs, coords, k) ==
  IF k > Len(coords)
  THEN [cells |-> cs, status |-> "ok"]
  ELSE LET res == set_cells_step(w, cs, coords[k][1], coords[k][2])
       IN  IF res.status = "ok"
           THEN set_cells_loop(w, res.cells, coords, k + 1)
           ELSE res

\* a whole call of set_cells on the slice coords
set_cells_result(w, cs, coords) == set_cells_loop(w, cs, coords, 1)

\* the call: the caller's slice is read one coordinate at a time
set_cells_begin ==
  /\ Idle
  /\ pc' = "set_cells"
  /\ last' = "set_cells"
  /\ pre' = DeadCells(0)
  /\ UNCHANGED <<width, height, cells, row, col, next, status>>

\* the next coordinate of the slice is (r, c)
set_cells_iter(r, c) ==
  /\ pc = "set_cells" /\ status = "ok"
  /\ LET res == set_cells_step(width, cells, r, c)
     IN  cells' = res.cells /\ status' = res.status
  /\ UNCHANGED <<width, height, pc, row, col, next, pre, last>>

\* the slice is exhausted
set_cells_end ==
  /\ pc = "set_cells" /\ status = "ok"
  /\ pc' = "idle"
  /\ UNCHANGED <<width, height, cells, row, col, next, pre, last, status>>

reset ==
  /\ Idle
  /\ cells' \in RandomCells(U32(width * height))
  /\ last' = "reset"
  /\ pre' = DeadCells(0)
  /\ UNCHANGED <<width, height, pc, row, col, next, status>>

(* ---------------------------- read accessors --------------------------- *)

\* width(), height(), get_cells(), cells(): each returns a field, by value,
\* by reference or as a pointer, and takes &self
Accessors == {"width", "height", "get_cells", "cells"}

read(accessor) ==
  /\ Idle
  /\ last' = accessor
  /\ pre' = DeadCells(0)
  /\ UNCHANGED <<width, height, cells, pc, row, col, next, status>>

(* ---------------------------- rendering -------------------------------- *)

\* the two characters of the Display implementation and the line end
DeadGlyph == "WHITE MEDIUM SQUARE"
AliveGlyph == "BLACK MEDIUM SQUARE"
NewLine == "\n"

symbol(cell) == IF cell = Dead THEN DeadGlyph ELSE AliveGlyph

Min(a, b) == IF a <= b THEN a ELSE b

RECURSIVE chunks(_, _)
\* slice.chunks(n) for n >= 1: consecutive pieces of n elements, the last
\* one possibly shorter, none for an empty slice
chunks(cs, n) ==
  IF Len(cs) = 0
  THEN << >>
  ELSE <<SubSeq(cs, 1, Min(n, Len(cs)))>>
         \o chunks(SubSeq(cs, Min(n, Len(cs)) + 1, Len(cs)), n)

\* the inner loop of fmt and the write of the line end
fmt_line(line) == [i \in 1..Len(line) |-> symbol(line[i])] \o <<NewLine>>

RECURSIVE fmt_lines(_, _)
\* the outer loop of fmt from the k-th chunk on
fmt_lines(lines, k) ==
  IF k > Len(lines) THEN << >> ELSE fmt_line(lines[k]) \o fmt_lines(lines, k + 1)

\* Display::fmt / to_string: chunks(0) panics
render_result(w, cs) ==
  IF w = 0
  THEN [text |-> << >>, status |-> "panicked"]
  ELSE [text |-> fmt_lines(chunks(cs, w), 1), status |-> "ok"]

render ==
  /\ Idle
  /\ status' = render_result(width, cells).status
  /\ last' = "render"
  /\ pre' = DeadCells(0)
  /\ UNCHANGED <<width, height, cells, pc, row, col, next>>

(* ---------------------------- specification ---------------------------- *)

Frame == UNCHANGED <<gen, seed>>

Tick == (tick_begin \/ tick_cell \/ tick_row \/ tick_end) /\ Frame
SetWidth == \E w \in Dims : w * height <= MaxCells /\ set_width(w) /\ Frame
SetHeight == \E h \in Dims : width * h <= MaxCells /\ set_height(h) /\ Frame
ToggleCell == \E r \in Coord, c \in Coord : toggle_cell(r, c) /\ Frame
SetCells ==
  \/ set_cells_begin /\ Frame
  \/ \E r \in Coord, c \in Coord : set_cells_iter(r, c) /\ Frame
  \/ set_cells_end /\ Frame
Reset == reset /\ Frame
Render == render /\ Frame
Read == \E accessor \in Accessors : read(accessor) /\ Frame

Next ==
  \/ Tick \/ SetWidth \/ SetHeight \/ ToggleCell \/ SetCells \/ Reset
  \/ Render \/ Read

Spec == Init /\ [][Next]_vars

(* ---------------------------- glider runs ------------------------------ *)

\* 5 is the smallest width / height that leaves a Dead margin around a glider
GliderDims == 5..GliderMaxDim

\* the five cells of the glider whose 3x3 box has its corner at (r, c)
GliderAt(w, h, r, c) ==
  { <<r % h, (c + 1) % w>>,
    <<(r + 1) % h, (c + 2) % w>>,
    <<(r + 2) % h, c % w>>,
    <<(r + 2) % h, (c + 1) % w>>,
    <<(r + 2) % h, (c + 2) % w>> }

\* the row-major buffer whose Alive cells are exactly those of alive
CellsOf(w, h, alive) ==
  [i \in 1..(w * h) |-> IF <<(i - 1) \div w, (i - 1) % w>> \in alive
                          THEN Alive ELSE Dead]

\* a universe resized to w x h (all Dead) and seeded by set_cells
GliderInit ==
  \E w \in GliderDims, h \in GliderDims :
    \E r \in 0..(h - 1), c \in 0..(w - 1) :
      /\ width = w
      /\ height = h
      /\ cells = CellsOf(w, h, GliderAt(w, h, r, c))
      /\ pc = "idle"
      /\ row = 0
      /\ col = 0
      /\ next = DeadCells(0)
      /\ pre = DeadCells(0)
      /\ last = "set_cells"
      /\ status = "ok"
      /\ gen = 0
      /\ seed = <<r, c>>

\* a run is the 4 ticks of the glider's period
GliderTickBegin == gen < 4 /\ tick_begin /\ UNCHANGED <<gen, seed>>
GliderTickCell == tick_cell /\ UNCHANGED <<gen, seed>>
GliderTickRow == tick_row /\ UNCHANGED <<gen, seed>>
GliderTickEnd == tick_end /\ gen' = gen + 1 /\ UNCHANGED seed

GliderNext == GliderTickBegin \/ GliderTickCell \/ GliderTickRow \/ GliderTickEnd

SpecGlider == GliderInit /\ [][GliderNext]_vars

(* ---------------------------- word-sized universes --------------------- *)

\* every width and height >= 1 whose product the word represents
WordDims == 1..(WordModulus - 1)

\* a universe resized to w x h: all Dead
WordInit ==
  \E w \in WordDims, h \in WordDims :
    /\ w * h < WordModulus
    /\ width = w
    /\ height = h
    /\ cells = DeadCells(U32(w * h))
    /\ pc = "idle"
    /\ row = 0
    /\ col = 0
    /\ next = DeadCells(0)
    /\ pre = DeadCells(0)
    /\ last = "set_height"
    /\ status = "ok"
    /\ gen = 0
    /\ seed = <<0, 0>>

\* one tick() of it
WordTickBegin == gen < 1 /\ tick_begin /\ UNCHANGED <<gen, seed>>
WordTickCell == tick_cell /\ UNCHANGED <<gen, seed>>
WordTickRow == tick_row /\ UNCHANGED <<gen, seed>>
WordTickEnd == tick_end /\ gen' = gen + 1 /\ UNCHANGED seed

WordNext == WordTickBegin \/ WordTickCell \/ WordTickRow \/ WordTickEnd

SpecWord == WordInit /\ [][WordNext]_vars

(* ---------------------------- properties ------------------------------- *)

InRange(r, c) == r < height /\ c < width
Rows == 0..(height - 1)
Cols == 0..(width - 1)
AllDead(cs) == \A i \in 1..Len(cs) : cs[i] = Dead

\* C1: in every reachable state, whatever sequence of tick, set_width,
\* set_height, toggle_cell, set_cells and reset led to it, the length of the
\* cell buffer equals width * height, zero dimensions included.
C1_LengthIsWidthTimesHeight == Len(cells) = width * height

C1_Witness ==
  /\ last = "set_height" /\ Idle
  /\ width = 0 /\ height = 3
  /\ Len(cells) = 0

\* C2: after one tick() of a universe with width >= 1 and height >= 1, a cell
\* is Alive exactly when, in the generation tick() was called on, it was Alive
\* with 2 or 3 live neighbors or Dead with exactly 3 live neighbors (live
\* neighbors as live_neighbor_count returns them); in every other case it is
\* Dead.
C2_TickRule ==
  (last = "tick" /\ Idle /\ width >= 1 /\ height >= 1) =>
    \A r \in Rows, c \in Cols :
      LET idx == r * width + c
          n == live_neighbor_count(width, height, pre, r, c)
          lives == \/ At(pre, idx) = Alive /\ n \in {2, 3}
                   \/ At(pre, idx) = Dead /\ n = 3
      IN  At(cells, idx) = (IF lives THEN Alive ELSE Dead)

\* a tick of a 3x3 universe has just made a Dead cell with 3 live neighbors
\* Alive and kept an Alive cell with 2 live neighbors Alive
C2_Witness ==
  /\ last = "tick" /\ Idle /\ width = 3 /\ height = 3
  /\ \E i \in 0..8 :
       /\ At(pre, i) = Dead /\ At(cells, i) = Alive
       /\ live_neighbor_count(width, height, pre, i \div 3, i % 3) = 3
  /\ \E i \in 0..8 :
       /\ At(pre, i) = Alive /\ At(cells, i) = Alive
       /\ live_neighbor_count(width, height, pre, i \div 3, i % 3) = 2

\* C3: while tick() runs, the universe's buffer is still the generation the
\* call started on (every neighbor count reads it), no step of the call
\* changes it except the last one, and that step installs `next` only when
\* all rows are done and `next` holds the next state of every cell.
C3_TickReadsSnapshot ==
  [][pc = "tick" =>
       /\ cells = pre
       /\ (cells' # cells \/ pc' # "tick") =>
            /\ row = height /\ pc' = "idle" /\ cells' = next
            /\ \A r \in Rows, c \in Cols :
                 At(next, r * width + c) =
                   next_cell(At(pre, r * width + c),
                             live_neighbor_count(width, height, pre, r, c))]_vars

\* tick() is half way through a 3x3 universe: `next` already differs from the
\* buffer, which is still the generation the call started on
C3_Witness ==
  /\ pc = "tick" /\ width = 3 /\ height = 3 /\ row = 1 /\ col = 2
  /\ next # cells /\ cells = pre

\* C4 as claimed: for every universe with width >= 1 and height >= 1 and
\* every in-range (row, column), live_neighbor_count(row, column) is the same
\* whether the cell (row, column) is Dead or Alive.
C4_SelfNeverCounted ==
  (width >= 1 /\ height >= 1) =>
    \A r \in Rows, c \in Cols :
      live_neighbor_count(width, height, Put(cells, r * width + c, Dead), r, c)
        = live_neighbor_count(width, height, Put(cells, r * width + c, Alive), r, c)

\* C4 as amended: the same for every universe with width >= 2 and
\* height >= 2 (with a dimension of 1 a wrapped offset leads back to the cell).
C4_SelfNotCountedFromTwo ==
  (width >= 2 /\ height >= 2) =>
    \A r \in Rows, c \in Cols :
      /\ live_neighbor_count(width, height, Put(cells, r * width + c, Dead), r, c)
           = live_neighbor_count(width, height, cells, r, c)
      /\ live_neighbor_count(width, height, Put(cells, r * width + c, Alive), r, c)
           = live_neighbor_count(width, height, cells, r, c)

\* tick() is about to count the neighbors of the Alive corner (1, 1) of a 2x2
\* universe whose other cells are Dead: the count is 0
C4_Witness ==
  /\ pc = "tick" /\ width = 2 /\ height = 2 /\ row = 1 /\ col = 1
  /\ cells = CellsOf(2, 2, {<<1, 1>>})
  /\ live_neighbor_count(width, height, cells, row, col) = 0

\* the universe of C5: 3x3, only (0, 0) Alive
OnlyOriginAlive == width = 3 /\ height = 3 /\ cells = CellsOf(3, 3, {<<0, 0>>})

\* C5 as claimed: on a 3x3 universe in which only (0, 0) is Alive,
\* live_neighbor_count(2, 2) is 1 and live_neighbor_count(1, 1) is 0.
C5_WrapAround ==
  OnlyOriginAlive =>
    /\ live_neighbor_count(width, height, cells, 2, 2) = 1
    /\ live_neighbor_count(width, height, cells, 1, 1) = 0

\* C5 as amended: on that universe live_neighbor_count(2, 2) is 1 and
\* live_neighbor_count(1, 1) is 1 too: the center (1, 1) is a direct diagonal
\* neighbor of (0, 0).
C5_WrapAroundCenterCounts ==
  OnlyOriginAlive =>
    /\ live_neighbor_count(width, height, cells, 2, 2) = 1
    /\ live_neighbor_count(width, height, cells, 1, 1) = 1

\* tick() has reached the cell (2, 2) of that universe
C5_Witness == OnlyOriginAlive /\ pc = "tick" /\ row = 2 /\ col = 2

\* C6: on a universe with width >= 5 and height >= 5 whose only Alive cells
\* are the glider (r,c+1), (r+1,c+2), (r+2,c), (r+2,c+1), (r+2,c+2), after
\* exactly 4 tick() calls the Alive cells are that glider translated by one
\* row and one column, coordinates modulo height and width.
C6_GliderMoves ==
  (gen = 4 /\ Idle) =>
    cells = CellsOf(width, height,
                    GliderAt(width, height, seed[1] + 1, seed[2] + 1))

\* the fourth tick of a glider seeded at the origin of a 5x5 universe is done
C6_Witness ==
  /\ gen = 4 /\ Idle /\ last = "tick"
  /\ width = 5 /\ height = 5 /\ seed = <<0, 0>>
  /\ At(cells, get_index(width, 3, 3)) = Alive

\* C7: after set_width(w) or set_height(h), from any reachable state and also
\* when the call passes the current value, every cell is Dead and the
\* buffer's length is the new width * height.
C7_ResizeClears ==
  (last \in {"set_width", "set_height"}) =>
    /\ AllDead(cells)
    /\ Len(cells) = width * height

\* a resize has just left a 3x3 universe
C7_Witness ==
  /\ last = "set_height" /\ Idle /\ width = 3 /\ height = 3
  /\ Len(cells) = 9 /\ AllDead(cells)

\* C8 as claimed: toggle_cell(row, column), or set_cells on a coordinate
\* (row, column), with row >= height or column >= width fails: the call does
\* not go on normally and no cell of the grid changes.
C8_OutOfRangeFails ==
  [][\A r \in Coord, c \in Coord :
       (~InRange(r, c) /\ (toggle_cell(r, c) \/ set_cells_iter(r, c))) =>
         (status' = "panicked" /\ cells' = cells)]_vars

\* C9 as claimed: tick() on a universe whose width or height is 0 fails
\* rather than completing normally.
C9_ZeroTickFails ==
  (last = "tick" /\ pc = "idle" /\ (width = 0 \/ height = 0)) =>
    status = "panicked"

\* C9 as amended: tick() on a universe whose width or height is 0 does not
\* fail: it visits no cell and leaves the empty buffer, width and height as
\* they were.
C9_ZeroTickIsNoOp ==
  (last = "tick" /\ (width = 0 \/ height = 0)) =>
    /\ status = "ok"
    /\ col = 0
    /\ cells = DeadCells(0)
    /\ (pc = "tick" => next = DeadCells(0))

\* tick() has returned on a universe of width 0 and height 3
C9_Witness ==
  /\ last = "tick" /\ Idle /\ width = 0 /\ height = 3 /\ cells = DeadCells(0)

\* C10: for in-range (row, column), once toggle_cell(row, column) has run,
\* running it again gives back the cells the first call started from; width
\* and height are those before the first call.
C10_ToggleTwice ==
  [][\A r \in Rows, c \in Cols :
       toggle_cell(r, c) =>
         LET again == toggle_cell_result(width', cells', r, c)
         IN  /\ status' = "ok" /\ again.status = "ok"
             /\ again.cells = cells
             /\ width' = width /\ height' = height]_vars

\* toggle_cell has just made a cell of a 3x3 universe Alive
C10_Witness ==
  /\ last = "toggle_cell" /\ Idle /\ width = 3 /\ height = 3
  /\ At(cells, get_index(width, 1, 2)) = Alive

\* the slices of at most MaxCoords in-range coordinates
InRangeLists == UNION {[1..n -> Rows \X Cols] : n \in 0..MaxCoords}
Reversed(l) == [i \in 1..Len(l) |-> l[Len(l) + 1 - i]]
Named(l) == {l[i] : i \in 1..Len(l)}

\* C11: for every list of in-range coordinates, after set_cells(coords) a
\* cell is Alive exactly when it was Alive before or its coordinate is in
\* coords; so no cell goes from Alive to Dead, the same call again changes
\* nothing, and the order and the repetition of coordinates do not matter.
C11_SetCellsIsUnion ==
  (pc = "set_cells" /\ status = "ok") =>
    \A l \in InRangeLists :
      LET res == set_cells_result(width, cells, l)
      IN  /\ res.status = "ok"
          /\ Len(res.cells) = Len(cells)
          /\ \A r \in Rows, c \in Cols :
               (At(res.cells, r * width + c) = Alive) <=>
                 (At(cells, r * width + c) = Alive \/ <<r, c>> \in Named(l))
          /\ set_cells_result(width, res.cells, l) = res
          /\ set_cells_result(width, cells, Reversed(l)) = res
          /\ set_cells_result(width, cells, l \o l) = res

\* set_cells has just returned on a 3x3 universe: a cell that was set and one
\* that was not
C11_Witness ==
  /\ last = "set_cells" /\ Idle /\ width = 3 /\ height = 3
  /\ cells = CellsOf(3, 3, {<<0, 1>>, <<2, 2>>})

\* the text the claim describes: height lines of width glyphs and a line end
LinesText ==
  [p \in 1..(height * (width + 1)) |->
     LET r == (p - 1) \div (width + 1)
         c == (p - 1) % (width + 1)
     IN  IF c = width THEN NewLine ELSE symbol(At(cells, r * width + c))]

\* C12: in every state with Len(cells) = width * height, zero dimensions
\* included, render() returns height lines, each of width glyphs and a line
\* end, the glyph at line r, position c being that of cell r * width + c.
C12_RenderLines ==
  (last = "render") =>
    /\ status = "ok"
    /\ render_result(width, cells).text = LinesText

\* the same for the universes render() does not fail on: width >= 1
RenderLinesFromWidthOne ==
  (last = "render" /\ width >= 1) =>
    /\ status = "ok"
    /\ render_result(width, cells).text = LinesText

\* the 0/1 value of the toroidal neighbor of (r, c) at the offset (dr, dc)
OffsetValue(r, c, dr, dc) ==
  At(cells, ((r + dr) % height) * width + ((c + dc) % width))

\* the sum over the eight offset pairs other than (0, 0)
EightOffsetSum(r, c) ==
    OffsetValue(r, c, -1, -1) + OffsetValue(r, c, -1, 0) + OffsetValue(r, c, -1, 1)
  + OffsetValue(r, c, 0, -1) + OffsetValue(r, c, 0, 1)
  + OffsetValue(r, c, 1, -1) + OffsetValue(r, c, 1, 0) + OffsetValue(r, c, 1, 1)

\* C13: for every universe with width >= 1 and height >= 1 and every in-range
\* (row, column), live_neighbor_count(row, column) is the sum, over the eight
\* offset pairs of {-1,0,1} x {-1,0,1} other than (0,0), of the value of the
\* cell at ((row+dr) mod height, (column+dc) mod width): eight lookups.
C13_EightLookups ==
  (width >= 1 /\ height >= 1) =>
    \A r \in Rows, c \in Cols :
      live_neighbor_count(width, height, cells, r, c) = EightOffsetSum(r, c)

\* the same for the universes on which height - 1 and width - 1 are not 0
EightLookupsFromTwo ==
  (width >= 2 /\ height >= 2) =>
    \A r \in Rows, c \in Cols :
      live_neighbor_count(width, height, cells, r, c) = EightOffsetSum(r, c)

\* C14: set_width(w) sets width to w and leaves height unchanged,
\* set_height(h) sets height to h and leaves width unchanged, and no step of
\* any other operation (tick, reset, toggle_cell, set_cells, render, the read
\* accessors) changes width or height.
C14_DimensionsFrame ==
  [][/\ \A w \in Dims : set_width(w) => (width' = w /\ height' = height)
     /\ \A h \in Dims : set_height(h) => (height' = h /\ width' = width)
     /\ (width' # width) => (last' = "set_width" /\ pc = "idle")
     /\ (height' # height) => (last' = "set_height" /\ pc = "idle")]_vars

\* set_height(3) has just run on a universe of width 2
C14_Witness ==
  /\ last = "set_height" /\ Idle /\ width = 2 /\ height = 3
  /\ Len(cells) = 6

\* C15: for in-range (row, column), toggle_cell(row, column) flips the
\* element at the row-major index row * width + column and leaves every other
\* element as it was; distinct in-range coordinates have distinct indices and
\* every index of the buffer is that of an in-range coordinate.
C15_ToggleFlipsOne ==
  [][\A r \in Rows, c \in Cols :
       (last' = "toggle_cell" /\ toggle_cell(r, c)) =>
         /\ status' = "ok"
         /\ Len(cells') = Len(cells)
         /\ \A i \in 0..(Len(cells) - 1) :
              At(cells', i) = IF i = r * width + c
                              THEN 1 - At(cells, i)
                              ELSE At(cells, i)
         /\ \A r2 \in Rows, c2 \in Cols :
              get_index(width, r2, c2) = get_index(width, r, c)
                => (r2 = r /\ c2 = c)
         /\ \A i \in 0..(Len(cells) - 1) :
              \E r2 \in Rows, c2 \in Cols : get_index(width, r2, c2) = i]_vars

\* toggle_cell has just made the last cell of a 2x3 universe Dead
C15_Witness ==
  /\ last = "toggle_cell" /\ Idle /\ width = 3 /\ height = 2
  /\ cells = CellsOf(3, 2, {<<0, 0>>, <<1, 1>>})

\* C16: on a universe whose cells are all Dead, live_neighbor_count is 0 for
\* every cell, and every step other than one of toggle_cell, set_cells or
\* reset (so every step of any number of tick() calls after a resize) leaves
\* all cells Dead.
C16_AllDeadIsFixed ==
  [][AllDead(cells) =>
       /\ (width >= 1 /\ height >= 1) =>
            \A r \in Rows, c \in Cols :
              live_neighbor_count(width, height, cells, r, c) = 0
       /\ (last' \notin {"toggle_cell", "set_cells", "reset"})
            => AllDead(cells')]_vars

\* a tick() has returned on a 3x3 universe that was all Dead before it
C16_Witness ==
  /\ last = "tick" /\ Idle /\ width = 3 /\ height = 3
  /\ Len(pre) = 9 /\ AllDead(pre) /\ AllDead(cells)

\* the buffer cs with every cell moved by (a, b) modulo (height, width)
Shifted(cs, a, b) ==
  [i \in 1..Len(cs) |->
     LET r == (i - 1) \div width
         c == (i - 1) % width
     IN  At(cs, ((r - a) % height) * width + ((c - b) % width))]

\* C17: for every universe with width >= 1 and height >= 1 and every shift
\* (a, b), tick() of the shifted grid is the shifted result of tick(): here
\* for the grid (pre) and the result (cells) of every tick() that has run.
C17_TickCommutesWithShift ==
  (last = "tick" /\ Idle /\ width >= 1 /\ height >= 1) =>
    /\ cells = tick_result(width, height, pre)
    /\ \A a \in Rows, b \in Cols :
         tick_result(width, height, Shifted(pre, a, b)) = Shifted(cells, a, b)

\* tick() has run on a 3x3 universe with three Alive cells in a corner
C17_Witness ==
  /\ last = "tick" /\ Idle /\ width = 3 /\ height = 3
  /\ pre = CellsOf(3, 3, {<<0, 0>>, <<0, 1>>, <<1, 0>>})
  /\ \A i \in 0..8 : At(cells, i) = Alive

\* tick() is about to count the neighbors of the cell (row, col)
AtCell == pc = "tick" /\ row < height /\ col < width

\* the row above and the column to the left as the code computes them are
\* those of the torus, and the index is the row-major one, inside the buffer
ReadsTheTorus ==
  /\ neighbor_row(height, row, DeltaRows(height)[1]) = (row - 1) % height
  /\ neighbor_col(width, col, DeltaCols(width)[1]) = (col - 1) % width
  /\ get_index(width, row, col) = row * width + col
  /\ get_index(width, row, col) < width * height

====
